---------------------------- MODULE Spec2Model ----------------------------
(***************************************************************************)
(* A model of eurobin_perception/visualization.py: the class colour        *)
(* loader, the colour resolver, the bounding-box annotator and the image   *)
(* viewer.  Images are arrays of 8-bit three-channel pixels in the channel *)
(* order (blue, green, red) that OpenCV uses; the drawing primitives of    *)
(* OpenCV are modelled by the pixels they write.                           *)
(***************************************************************************)
EXTENDS Integers, Sequences, FiniteSets, TLC

(***************************************************************************)
(* Bounds of the model.                                                    *)
(***************************************************************************)
\* image width and height in pixels
ImgW == 8
ImgH == 24
\* longest list of bounding boxes passed to annotate_image
MaxBoxes == 2
\* advance of one glyph of the font, in font units (the Hershey table of the
\* library, reduced to one advance for every glyph)
GlyphAdvance == 4
\* longest plain scalar read as a key of the config file, in characters
MaxKeyLen == 5

(***************************************************************************)
(* Constants of the program.                                               *)
(***************************************************************************)
\* CV2_BBOX_FONT_SCALE = 0.5, in tenths
CV2_BBOX_FONT_SCALE_x10 == 5
\* FONT_HERSHEY_SIMPLEX: cap line and base line of the face, in font units
cap_line == 12
base_line == 9
\* thickness=2 of the box outline
bbox_thickness == 2
\* thickness 1 of the label text (getTextSize and putText)
text_thickness == 1
\* alpha = 0.5, in tenths
alpha_x10 == 5
\* the text origin is bbox['ymin'] - 5
text_dy == 5
\* np.random.random(3) * 255. and the colour range
COLOR_MAX == 255

\* the pixels of an image, row by row, and the column and row of a pixel
Pixels == 1 .. (ImgW * ImgH)
PXs == [p \in Pixels |-> (p - 1) % ImgW]
PYs == [p \in Pixels |-> (p - 1) \div ImgW]
PX(p) == PXs[p]
PY(p) == PYs[p]
Channels == 1 .. 3
\* channel order of a BGR image
BLUE == 1
GREEN == 2
RED == 3

\* cvRound(n / d) for n >= 0, d > 0: round to nearest, ties to even
cvRoundDiv(n, d) ==
  LET q == n \div d
      r == n % d
  IN  IF 2 * r < d THEN q
      ELSE IF 2 * r > d THEN q + 1
      ELSE IF q % 2 = 0 THEN q ELSE q + 1

\* saturate_cast<uchar> of an integral value
saturate_cast(v) == IF v < 0 THEN 0 ELSE IF v > COLOR_MAX THEN COLOR_MAX ELSE v

\* a Python colour sequence converted to the Scalar written into the image:
\* element k of the sequence goes to channel k of the pixel, saturated
ScalarToRaw(color) == [c \in Channels |-> saturate_cast(color[c])]


(***************************************************************************)
(* Images and the drawing primitives of cv2.                               *)
(***************************************************************************)
\* an image of one colour
Uniform(px) == [p \in Pixels |-> px]

\* cv2.rectangle(img, (x1, y1), (x2, y2), color, thickness) with x1 <= x2 and
\* y1 <= y2: whether it writes the pixel at column x, row y.  A negative
\* thickness fills the rectangle, corners included; otherwise the four edges
\* are drawn as lines that reach thickness / 2 pixels to either side.
InRect(x, y, x1, y1, x2, y2, thickness) ==
  IF thickness < 0
    THEN x1 <= x /\ x <= x2 /\ y1 <= y /\ y <= y2
    ELSE LET r == thickness \div 2
         IN  /\ x1 - r <= x /\ x <= x2 + r
             /\ y1 - r <= y /\ y <= y2 + r
             /\ ~ (/\ x1 + r < x /\ x < x2 - r
                   /\ y1 + r < y /\ y < y2 - r)

\* the pixels of the image the rectangle covers (what lies outside the image
\* is clipped)
RectFootprint(x1, y1, x2, y2, thickness) ==
  {p \in Pixels : InRect(PXs[p], PYs[p], x1, y1, x2, y2, thickness)}

\* cv2.rectangle: writes the colour, as given, into the channels of every
\* pixel of the footprint
cv2_rectangle(img, x1, y1, x2, y2, color, thickness) ==
  LET raw == ScalarToRaw(color)
  IN  [p \in Pixels |->
         IF InRect(PXs[p], PYs[p], x1, y1, x2, y2, thickness) THEN raw
         ELSE img[p]]

\* cv2.getTextSize(text, FONT_HERSHEY_SIMPLEX, 0.5, 1): <<width, height>>
cv2_getTextSize(text) ==
  LET h == cvRoundDiv((cap_line + base_line) * CV2_BBOX_FONT_SCALE_x10
                        + 10 * ((text_thickness + 1) \div 2), 10)
      w == cvRoundDiv(Len(text) * GlyphAdvance * CV2_BBOX_FONT_SCALE_x10
                        + 10 * text_thickness, 10)
  IN  <<w, h>>

\* cv2.putText(img, text, (x, y), font, scale, color, 1): whether it writes
\* the pixel at column px, row py.  (x, y) is the bottom-left corner of the
\* text; each glyph but the space is a stem from the base line up to the cap
\* line at the pen position.
InText(px, py, text, x, y) ==
  /\ py <= y
  /\ y - (cap_line * CV2_BBOX_FONT_SCALE_x10) \div 10 <= py
  /\ \E k \in 1 .. Len(text) :
       /\ text[k] # " "
       /\ px = x + ((k - 1) * GlyphAdvance * CV2_BBOX_FONT_SCALE_x10) \div 10

TextFootprint(text, x, y) ==
  {p \in Pixels : InText(PXs[p], PYs[p], text, x, y)}

cv2_putText(img, text, x, y, color) ==
  LET raw == ScalarToRaw(color)
  IN  [p \in Pixels |->
         IF InText(PXs[p], PYs[p], text, x, y) THEN raw ELSE img[p]]

\* cv2.addWeighted(src1, alpha, src2, 1 - alpha, 0) on 8-bit images:
\* saturate_cast<uchar>(src1 * alpha + src2 * (1 - alpha)) in every channel
\* the blend with the overlay at full weight
cv2_addWeighted_opaque(src1, src2) == src1

\* the blend without the term of the second image
cv2_addWeighted_dim(src1, src2) ==
  [p \in Pixels |-> [c \in Channels |->
     saturate_cast(cvRoundDiv(alpha_x10 * src1[p][c], 10))]]

cv2_addWeighted(src1, src2) ==
  [p \in Pixels |-> [c \in Channels |->
     saturate_cast(cvRoundDiv(alpha_x10 * src1[p][c]
                                + (10 - alpha_x10) * src2[p][c], 10))]]

(***************************************************************************)
(* Text: a string is a sequence of one-character strings.                  *)
(***************************************************************************)
Digits == <<"0", "1", "2", "3", "4", "5", "6", "7", "8", "9">>
DigitChars == {Digits[i] : i \in 1 .. 10}
DigitChar(d) == Digits[d + 1]
DigitValue(ch) == (CHOOSE i \in 1 .. 10 : Digits[i] = ch) - 1

RECURSIVE NatToStr(_)
NatToStr(n) == IF n < 10 THEN <<DigitChar(n)>>
               ELSE NatToStr(n \div 10) \o <<DigitChar(n % 10)>>

\* '{:.2f}'.format(float(confidence)) for a confidence of e eighths: the
\* value, exact in binary, rounded to hundredths with ties to even
FormatFixed2(e) ==
  LET hundredths == cvRoundDiv(100 * e, 8)
  IN  NatToStr(hundredths \div 100) \o <<".">>
        \o <<DigitChar((hundredths \div 10) % 10), DigitChar(hundredths % 10)>>

\* the confidence with one decimal
FormatConfidence_1f(e) ==
  LET tenths == cvRoundDiv(10 * e, 8)
  IN  <<":", " ">> \o NatToStr(tenths \div 10) \o <<".">>
        \o <<DigitChar(tenths % 10)>> \o <<"%">>

\* ': {:.2f}%'.format(float(confidence))
FormatConfidence(e) == <<":", " ">> \o FormatFixed2(e) \o <<"%">>

(***************************************************************************)
(* Python values: dictionary keys, the class colour mapping, exceptions.   *)
(***************************************************************************)
\* m * 10^e with m not a multiple of 10 (0 is 0 * 10^0): the number a key is
RECURSIVE Norm(_, _)
Norm(m, e) ==
  IF m = 0 THEN <<0, 0>>
  ELSE IF m % 10 = 0 THEN Norm(m \div 10, e + 1)
  ELSE <<m, e>>

\* the values that are keys of a dict: str, int, bool, None and float (a
\* finite float is m * 10^e; inf carries its sign in m)
StrKey(s) == [t |-> "str", s |-> s, m |-> 0, e |-> 0]
IntKey(n) == [t |-> "int", s |-> << >>, m |-> n, e |-> 0]
BoolKey(b) == [t |-> "bool", s |-> << >>, m |-> IF b THEN 1 ELSE 0, e |-> 0]
NoneKey == [t |-> "None", s |-> << >>, m |-> 0, e |-> 0]
FloatKey(m, e) ==
  [t |-> "float", s |-> << >>, m |-> Norm(m, e)[1], e |-> Norm(m, e)[2]]
InfKey(sign) == [t |-> "float", s |-> <<"i", "n", "f">>, m |-> sign, e |-> 0]
NanKey == [t |-> "float", s |-> <<"n", "a", "n">>, m |-> 0, e |-> 0]

\* a == b and hash(a) == hash(b), as a dict compares its keys: numbers of
\* equal value are one key whatever their type (True, 1 and 1.0), a str and
\* an int never are; the nan of the loader is one object, equal to itself
Numeric(k) == k.t \in {"int", "bool", "float"}
KeyEq(a, b) ==
  IF Numeric(a) /\ Numeric(b)
    THEN /\ a.s = b.s
         /\ IF a.s = << >> THEN Norm(a.m, a.e) = Norm(b.m, b.e) ELSE a.m = b.m
    ELSE a = b

EmptyMap == [k \in {} |-> <<0, 0, 0>>]
Unset == [kind |-> "unset", d |-> EmptyMap]
NoneValue == [kind |-> "None", d |-> EmptyMap]
Dict(f) == [kind |-> "dict", d |-> f]

\* key in d, and d[key] for a key in d
HasKey(d, key) == \E k \in DOMAIN d : KeyEq(k, key)
KeyOf(d, key) == CHOOSE k \in DOMAIN d : KeyEq(k, key)
GetItem(d, key) == d[KeyOf(d, key)]

(***************************************************************************)
(* yaml.safe_load: the implicit resolvers of plain scalars and the         *)
(* constructors of the values they resolve to.                             *)
(***************************************************************************)
NonZeroChars == DigitChars \ {"0"}
OctChars == DigitChars \ {"8", "9"}
\* the digits of base 16 in the order of their values 0 .. 15, in the two
\* cases int(text, 16) accepts
HexLower == Digits \o <<"a", "b", "c", "d", "e", "f">>
HexUpper == Digits \o <<"A", "B", "C", "D", "E", "F">>
HexChars == {HexLower[i] : i \in 1 .. 16} \cup {HexUpper[i] : i \in 1 .. 16}
Letters ==
  {"a", "b", "c", "d", "e", "f", "g", "h", "i", "j", "k", "l", "m", "n", "o",
   "p", "q", "r", "s", "t", "u", "v", "w", "x", "y", "z",
   "A", "B", "C", "D", "E", "F", "G", "H", "I", "J", "K", "L", "M", "N", "O",
   "P", "Q", "R", "S", "T", "U", "V", "W", "X", "Y", "Z"}
\* the characters of the plain scalars the model reads as mapping keys; any
\* text of one or more of them is a plain scalar in front of ": "
PlainChars == DigitChars \cup Letters \cup {"_", "-", "+", ":", ".", "~", "<", "="}

AllIn(text, S) == \A k \in 1 .. Len(text) : text[k] \in S
Drop(text, n) == SubSeq(text, n + 1, Len(text))
\* the index of the first character of text that is in S, 0 if there is none
IndexOf(text, S) ==
  IF \E k \in 1 .. Len(text) : text[k] \in S
    THEN CHOOSE k \in 1 .. Len(text) :
           text[k] \in S /\ \A j \in 1 .. (k - 1) : text[j] \notin S
    ELSE 0
\* text.split(ch)
RECURSIVE Split(_, _)
Split(text, ch) ==
  LET p == IndexOf(text, {ch})
  IN  IF p = 0 THEN <<text>>
      ELSE <<SubSeq(text, 1, p - 1)>> \o Split(Drop(text, p), ch)
\* value.replace('_', '')
Strip(text) == SelectSeq(text, LAMBDA ch : ch # "_")
\* the text after its sign, and the sign
Signed(text) == Len(text) > 0 /\ text[1] \in {"-", "+"}
Unsigned(text) == IF Signed(text) THEN Drop(text, 1) ELSE text
Sign(text) == IF Len(text) > 0 /\ text[1] = "-" THEN -1 ELSE 1

\* the value of a digit of a base up to 16
HexValue(ch) ==
  (CHOOSE i \in 1 .. 16 : HexLower[i] = ch \/ HexUpper[i] = ch) - 1
\* int(text, base) of a text of digits of the base; 0 for no digits
RECURSIVE ParseNat(_, _)
ParseNat(text, base) ==
  IF Len(text) = 0 THEN 0
  ELSE base * ParseNat(SubSeq(text, 1, Len(text) - 1), base)
         + HexValue(text[Len(text)])
\* digits in base 60, the most significant first
RECURSIVE Sexagesimal(_)
Sexagesimal(parts) ==
  IF Len(parts) = 0 THEN 0
  ELSE 60 * Sexagesimal(SubSeq(parts, 1, Len(parts) - 1))
         + ParseNat(parts[Len(parts)], 10)
RECURSIVE Pow10(_)
Pow10(n) == IF n = 0 THEN 1 ELSE 10 * Pow10(n - 1)

BoolWords(b) ==
  IF b THEN { <<"y", "e", "s">>, <<"Y", "e", "s">>, <<"Y", "E", "S">>,
              <<"t", "r", "u", "e">>, <<"T", "r", "u", "e">>,
              <<"T", "R", "U", "E">>,
              <<"o", "n">>, <<"O", "n">>, <<"O", "N">> }
  ELSE { <<"n", "o">>, <<"N", "o">>, <<"N", "O">>,
         <<"f", "a", "l", "s", "e">>, <<"F", "a", "l", "s", "e">>,
         <<"F", "A", "L", "S", "E">>,
         <<"o", "f", "f">>, <<"O", "f", "f">>, <<"O", "F", "F">> }
\* the null resolver, ~ | null | Null | NULL; its empty alternative is no
\* key here, see NoKey
NullWords ==
  { <<"~">>, <<"n", "u", "l", "l">>, <<"N", "u", "l", "l">>,
    <<"N", "U", "L", "L">> }
InfWords ==
  { <<".", "i", "n", "f">>, <<".", "I", "n", "f">>, <<".", "I", "N", "F">> }
NanWords ==
  { <<".", "n", "a", "n">>, <<".", "N", "a", "N">>, <<".", "N", "A", "N">> }

\* (?::[0-5]?[0-9])+ : the parts after the first of a base 60 number
SexagesimalParts(parts) ==
  /\ Len(parts) >= 2
  /\ \A k \in 2 .. Len(parts) :
       \/ Len(parts[k]) = 1 /\ parts[k][1] \in DigitChars
       \/ /\ Len(parts[k]) = 2
          /\ parts[k][1] \in {"0", "1", "2", "3", "4", "5"}
          /\ parts[k][2] \in DigitChars

\* the resolver of tag:yaml.org,2002:int, on the text b after the sign and
\* its parts between colons:
\*   [-+]?0b[0-1_]+ | [-+]?0[0-7_]+ | [-+]?(?:0|[1-9][0-9_]*)
\*   | [-+]?0x[0-9a-fA-F_]+ | [-+]?[1-9][0-9_]*(?::[0-5]?[0-9])+
MatchesInt(b, parts) ==
  \/ /\ Len(b) >= 3 /\ b[1] = "0" /\ b[2] = "b"
     /\ AllIn(Drop(b, 2), {"0", "1", "_"})
  \/ /\ Len(b) >= 2 /\ b[1] = "0"
     /\ AllIn(Drop(b, 1), OctChars \cup {"_"})
  \/ b = <<"0">>
  \/ /\ Len(b) >= 1 /\ b[1] \in NonZeroChars
     /\ AllIn(Drop(b, 1), DigitChars \cup {"_"})
  \/ /\ Len(b) >= 3 /\ b[1] = "0" /\ b[2] = "x"
     /\ AllIn(Drop(b, 2), HexChars \cup {"_"})
  \/ /\ Len(parts[1]) >= 1 /\ parts[1][1] \in NonZeroChars
     /\ AllIn(Drop(parts[1], 1), DigitChars \cup {"_"})
     /\ SexagesimalParts(parts)
IsInt(text) == MatchesInt(Unsigned(text), Split(Unsigned(text), ":"))

\* a key or the exception its constructor raises
Constructed(key) == [raised |-> "none", key |-> key]
Raises(exc) == [raised |-> exc, key |-> NoneKey]

\* construct_yaml_int, on the sign and on the text after it, underscores
\* removed
IntOf(sign, value) ==
  IF value = <<"0">> THEN Constructed(IntKey(0))
  ELSE IF Len(value) >= 2 /\ value[1] = "0" /\ value[2] \in {"b", "x"}
    \* int('', 2) and int('', 16) raise ValueError
    THEN IF Len(value) = 2 THEN Raises("ValueError")
         ELSE Constructed(IntKey(sign * ParseNat(Drop(value, 2),
                             IF value[2] = "b" THEN 2 ELSE 16)))
  ELSE IF value[1] = "0"
    THEN Constructed(IntKey(sign * ParseNat(value, 8)))
  ELSE IF IndexOf(value, {":"}) > 0
    THEN Constructed(IntKey(sign * Sexagesimal(Split(value, ":"))))
  ELSE Constructed(IntKey(sign * ParseNat(value, 10)))
construct_yaml_int(text) == IntOf(Sign(text), Unsigned(Strip(text)))

\* the parts of a float after its sign: the text before the first '.' (all
\* of it if there is none), the text after it, the digits of that and the
\* exponent from its 'e' on
BeforeDot(b) == SubSeq(b, 1, IndexOf(b, {"."}) - 1)
AfterDot(b) == Drop(b, IndexOf(b, {"."}))
Fraction(rest) ==
  IF IndexOf(rest, {"e", "E"}) = 0 THEN rest
  ELSE SubSeq(rest, 1, IndexOf(rest, {"e", "E"}) - 1)
Exponent(rest) ==
  IF IndexOf(rest, {"e", "E"}) = 0 THEN << >>
  ELSE Drop(rest, IndexOf(rest, {"e", "E"}) - 1)
FloatRecord(b, rest) ==
  [dot   |-> IndexOf(b, {"."}),
   head  |-> BeforeDot(b),
   parts |-> Split(BeforeDot(b), ":"),
   rest  |-> rest,
   frac  |-> Fraction(rest),
   expo  |-> Exponent(rest)]
FloatParts(text) == FloatRecord(Unsigned(text), AfterDot(Unsigned(text)))

\* [0-9_]*(?:[eE][-+][0-9]+)?
MatchesFraction(p) ==
  /\ AllIn(p.frac, DigitChars \cup {"_"})
  /\ \/ p.expo = << >>
     \/ /\ Len(p.expo) >= 3
        /\ p.expo[2] \in {"-", "+"}
        /\ AllIn(Drop(p.expo, 2), DigitChars)

\* the resolver of tag:yaml.org,2002:float, on the text and its parts:
\*   [-+]?(?:[0-9][0-9_]*)\.[0-9_]*(?:[eE][-+][0-9]+)?
\*   | \.[0-9][0-9_]*(?:[eE][-+][0-9]+)?
\*   | [-+]?[0-9][0-9_]*(?::[0-5]?[0-9])+\.[0-9_]*
\*   | [-+]?\.(?:inf|Inf|INF) | \.(?:nan|NaN|NAN)
MatchesFloat(text, p) ==
  \/ /\ p.dot > 1
     /\ p.head[1] \in DigitChars
     /\ AllIn(Drop(p.head, 1), DigitChars \cup {"_"})
     /\ MatchesFraction(p)
  \/ /\ ~ Signed(text)
     /\ p.dot = 1
     /\ Len(p.frac) >= 1 /\ p.frac[1] \in DigitChars
     /\ MatchesFraction(p)
  \/ /\ p.dot > 1
     /\ Len(p.parts[1]) >= 1 /\ p.parts[1][1] \in DigitChars
     /\ AllIn(Drop(p.parts[1], 1), DigitChars \cup {"_"})
     /\ SexagesimalParts(p.parts)
     /\ AllIn(p.rest, DigitChars \cup {"_"})
  \/ Unsigned(text) \in InfWords
  \/ text \in NanWords
IsFloat(text) == MatchesFloat(text, FloatParts(text))

\* construct_yaml_float, on the sign and on the parts of the text,
\* underscores removed: the float nearest to the number the text denotes
FloatOf(sign, p) ==
  FloatKey(sign * ((IF Len(p.parts) >= 2 THEN Sexagesimal(p.parts)
                    ELSE ParseNat(p.head, 10)) * Pow10(Len(p.frac))
                     + ParseNat(p.frac, 10)),
           (IF p.expo = << >> THEN 0
            ELSE Sign(Drop(p.expo, 1)) * ParseNat(Drop(p.expo, 2), 10))
             - Len(p.frac))
construct_yaml_float(text) ==
  IF Unsigned(text) \in InfWords THEN InfKey(Sign(text))
  ELSE IF text \in NanWords THEN NanKey
  ELSE FloatOf(Sign(text), FloatParts(Strip(text)))

\* an entry without a key: ": [r, g, b]" is no empty plain key but a value
\* indicator out of place, which the parser rejects
NoKey(entry) == ~ entry.quoted /\ entry.text = << >>

\* Resolver.resolve of a mapping key: the tag of a plain scalar is that of
\* the first resolver whose pattern it matches, str if there is none; a
\* quoted scalar is a str
resolve(entry) ==
  IF entry.quoted THEN "str"
  ELSE IF entry.text \in BoolWords(TRUE) \cup BoolWords(FALSE) THEN "bool"
  ELSE IF IsFloat(entry.text) THEN "float"
  ELSE IF IsInt(entry.text) THEN "int"
  ELSE IF entry.text = <<"<", "<">> THEN "merge"
  ELSE IF entry.text \in NullWords THEN "null"
  ELSE "str"

\* construct_object of the key of an entry, given its tag: the key or the
\* exception raised
construct_object(entry, tag) ==
  IF tag = "bool" THEN Constructed(BoolKey(entry.text \in BoolWords(TRUE)))
  ELSE IF tag = "float" THEN Constructed(construct_yaml_float(entry.text))
  ELSE IF tag = "int" THEN construct_yaml_int(entry.text)
  ELSE IF tag = "null" THEN Constructed(NoneKey)
  \* flatten_mapping: "expected a mapping for merging"
  ELSE IF tag = "merge" THEN Raises("YAMLError")
  ELSE Constructed(StrKey(entry.text))

\* the key yaml.safe_load makes of the key of an entry "key: [r, g, b]", or
\* the exception it raises.  Plain scalars are covered up to MaxKeyLen
\* characters of PlainChars: their numbers are then exact in the model and
\* none is a timestamp.
YamlKey(entry) ==
  CASE entry.quoted -> Constructed(StrKey(entry.text))
    \* ParserError: expected <block end>, but found ':'
    [] NoKey(entry) -> Raises("YAMLError")
    [] /\ ~ entry.quoted
       /\ Len(entry.text) >= 1
       /\ Len(entry.text) <= MaxKeyLen
       /\ AllIn(entry.text, PlainChars) -> construct_object(entry, resolve(entry))

\* construct_mapping of the entries es with the constructed keys: a dict
\* built entry by entry, in which a repeated key stays as it was first
\* written and keeps its last value
construct_mapping(es, keys) ==
  Dict([key \in {keys[k].key : k \in {k \in 1 .. Len(es) :
                    \A j \in 1 .. (k - 1) : ~ KeyEq(keys[j].key, keys[k].key)}}
          |-> es[CHOOSE j \in 1 .. Len(es) :
                   /\ KeyEq(keys[j].key, key)
                   /\ \A n \in (j + 1) .. Len(es) :
                        ~ KeyEq(keys[n].key, key)].val])

\* flatten_mapping, before any key is constructed: a merge key with an empty
\* list merges nothing and is gone, any other raises
IsMerge(entry) == ~ entry.quoted /\ entry.text = <<"<", "<">>
flatten_mapping(entries) ==
  SelectSeq(entries, LAMBDA en : ~ IsMerge(en) \/ en.val # << >>)

construct_document(es, keys) ==
  IF \E k \in 1 .. Len(es) : IsMerge(es[k])
    THEN [raised |-> "YAMLError", value |-> Unset]
  ELSE IF \E k \in 1 .. Len(es) : keys[k].raised # "none"
    THEN [raised |-> "ValueError", value |-> Unset]
  ELSE [raised |-> "none", value |-> construct_mapping(es, keys)]

\* yaml.safe_load of a document of "key: [r, g, b]" entries: None for the
\* empty document, else the dict of the entries or the exception raised.
\* The document is parsed in full before anything is constructed.
yaml_safe_load(entries) ==
  IF Len(entries) = 0 THEN [raised |-> "none", value |-> NoneValue]
  ELSE IF \E k \in 1 .. Len(entries) : NoKey(entries[k])
    THEN [raised |-> "YAMLError", value |-> Unset]
  ELSE construct_document(
         flatten_mapping(entries),
         [k \in 1 .. Len(flatten_mapping(entries)) |->
            YamlKey(flatten_mapping(entries)[k])])

\* load_class_color_map(path): what open() and yaml.safe_load give for the
\* file, returned as it is.  The file is read as text: bytes that are no
\* UTF-8 raise UnicodeDecodeError, text that is no YAML raises a YAMLError,
\* whichever fault of the file the loader meets first.
load_class_color_map(file) ==
  IF ~ file.readable THEN [raised |-> "OSError", value |-> Unset]
  ELSE IF file.fault = "encoding"
    THEN [raised |-> "UnicodeDecodeError", value |-> Unset]
  ELSE IF file.fault = "syntax" THEN [raised |-> "YAMLError", value |-> Unset]
  ELSE yaml_safe_load(file.entries)

\* get_class_color with the colour of a hit reversed in place, as a caller
\* converting it to BGR with color.reverse() would leave the mapping
get_class_color_reversing(class_colors_dict, class_str, sample) ==
  IF class_colors_dict.kind # "dict"
    THEN [raised |-> "TypeError", hit |-> FALSE, color |-> <<0, 0, 0>>,
          diag |-> 0, dict |-> class_colors_dict]
  ELSE IF HasKey(class_colors_dict.d, class_str)
    THEN LET c == GetItem(class_colors_dict.d, class_str)
         IN  [raised |-> "none", hit |-> TRUE, color |-> c, diag |-> 0,
              dict |-> Dict([class_colors_dict.d EXCEPT
                               ![KeyOf(class_colors_dict.d, class_str)] =
                                 <<c[3], c[2], c[1]>>])]
  ELSE [raised |-> "none", hit |-> FALSE, color |-> sample,
        diag |-> 2, dict |-> class_colors_dict]

\* get_class_color that warns on every call, hit or not
get_class_color_warning(class_colors_dict, class_str, sample) ==
  IF class_colors_dict.kind # "dict"
    THEN [raised |-> "TypeError", hit |-> FALSE, color |-> <<0, 0, 0>>,
          diag |-> 0, dict |-> class_colors_dict]
  ELSE IF HasKey(class_colors_dict.d, class_str)
    THEN [raised |-> "none", hit |-> TRUE,
          color |-> GetItem(class_colors_dict.d, class_str),
          diag |-> 2, dict |-> class_colors_dict]
  ELSE [raised |-> "none", hit |-> FALSE, color |-> sample,
        diag |-> 2, dict |-> class_colors_dict]

\* get_class_color that stores the random colour in the mapping
get_class_color_caching(class_colors_dict, class_str, sample) ==
  IF class_colors_dict.kind # "dict"
    THEN [raised |-> "TypeError", hit |-> FALSE, color |-> <<0, 0, 0>>,
          diag |-> 0, dict |-> class_colors_dict]
  ELSE IF HasKey(class_colors_dict.d, class_str)
    THEN [raised |-> "none", hit |-> TRUE,
          color |-> GetItem(class_colors_dict.d, class_str),
          diag |-> 0, dict |-> class_colors_dict]
  ELSE [raised |-> "none", hit |-> FALSE, color |-> sample, diag |-> 2,
        dict |-> Dict([k \in DOMAIN class_colors_dict.d \cup {class_str} |->
                         IF k = class_str THEN sample
                         ELSE class_colors_dict.d[k]])]

\* get_class_color(class_colors_dict, class_str); sample is the value of
\* list(np.random.random(3) * 255.) should the fallback be taken.  diag is
\* the number of lines printed; dict is the mapping after the call.
get_class_color(class_colors_dict, class_str, sample) ==
  IF class_colors_dict.kind # "dict"
    THEN [raised |-> "TypeError", hit |-> FALSE, color |-> <<0, 0, 0>>,
          diag |-> 0, dict |-> class_colors_dict]
  ELSE IF HasKey(class_colors_dict.d, class_str)
    THEN [raised |-> "none", hit |-> TRUE,
          color |-> GetItem(class_colors_dict.d, class_str),
          diag |-> 0, dict |-> class_colors_dict]
  ELSE [raised |-> "none", hit |-> FALSE, color |-> sample,
        diag |-> 2, dict |-> class_colors_dict]

\* an assignment in place of the copy: the same buffer under a second name
np_copy_alias(m, src, dst) == [ref |-> src, mem |-> m]

\* np.copy(m[src]) into the fresh buffer dst: the reference to the copy and
\* the memory after it
np_copy(m, src, dst) == [ref |-> dst, mem |-> [m EXCEPT ![dst] = m[src]]]

(***************************************************************************)
(* The inputs.                                                             *)
(***************************************************************************)
\* the caller's image: black columns, and columns of varied pixels
InputImage ==
  [p \in Pixels |-> IF PX(p) % 2 = 0 THEN <<0, 0, 0>>
                    ELSE <<(37 * PX(p) + 11 * PY(p)) % 256, 200, 255>>]

Entry(quoted, text, val) == [quoted |-> quoted, text |-> text, val |-> val]
\* a file: whether open() succeeds, the first fault safe_load meets reading
\* it ("none", "encoding" for bytes that are no UTF-8, "syntax" for text
\* that is no YAML) and the entries of its mapping
File(readable, fault, entries) ==
  [readable |-> readable, fault |-> fault, entries |-> entries]
ConfigFiles ==
  { \* '1': [255, 0, 0] and '2': [0, 128, 255]
    File(TRUE, "none", <<Entry(TRUE, <<"1">>, <<255, 0, 0>>),
                         Entry(TRUE, <<"2">>, <<0, 128, 255>>)>>),
    \* 01: [1, 2, 3], then 1: [9, 9, 9], then yes: [300, -5, 0]
    File(TRUE, "none", <<Entry(FALSE, <<"0", "1">>, <<1, 2, 3>>),
                         Entry(FALSE, <<"1">>, <<9, 9, 9>>),
                         Entry(FALSE, <<"y", "e", "s">>, <<300, -5, 0>>)>>),
    \* the empty file
    File(TRUE, "none", << >>),
    \* 0x_: [0, 0, 0]
    File(TRUE, "none", <<Entry(FALSE, <<"0", "x", "_">>, <<0, 0, 0>>)>>),
    \* a: [1, 1, 1], then : [2, 2, 2]
    File(TRUE, "none", <<Entry(FALSE, <<"a">>, <<1, 1, 1>>),
                         Entry(FALSE, << >>, <<2, 2, 2>>)>>),
    \* <<: [0, 0, 0]
    File(TRUE, "none", <<Entry(FALSE, <<"<", "<">>, <<0, 0, 0>>)>>),
    File(TRUE, "syntax", << >>),
    File(TRUE, "encoding", << >>),
    File(FALSE, "none", << >>) }

\* the values of np.random.random(3) * 255. the model draws from
RandomColors == { <<0, 0, 0>>, <<254, 17, 128>> }

NoConfidence == [kind |-> "none", e |-> 0]
AbsentConfidence == [kind |-> "absent", e |-> 0]
Confidence(e) == [kind |-> "num", e |-> e]
BBox(class, xmin, ymin, xmax, ymax, confidence) ==
  [class |-> class, xmin |-> xmin, ymin |-> ymin, xmax |-> xmax,
   ymax |-> ymax, confidence |-> confidence]
BBoxChoices ==
  { BBox(StrKey(<<"1">>), 1, 19, 5, 21, NoConfidence),
    BBox(StrKey(<<"1">>), 2, 4, 6, 10, Confidence(1)),
    BBox(StrKey(<<"7">>), 1, 19, 5, 21, Confidence(7)),
    BBox(StrKey(<<"1">>), 2, 4, 6, 10, AbsentConfidence),
    BBox(IntKey(1), 2, 4, 6, 10, NoConfidence) }
ClassChoices == {b.class : b \in BBoxChoices}

(***************************************************************************)
(* The state.                                                              *)
(***************************************************************************)
VARIABLES
  pc,                 \* where the caller is: "start", "idle", "loop",
                      \* "waitKey", "destroy", "view_return"
  class_colors_dict,  \* the value the caller got from load_class_color_map
  mem,                \* the pixel buffers: "image" (the caller's array),
                      \* "copy1" (np.copy(image)), "copy2" (image_overlay)
  image_annotated,    \* the buffer the variable image_annotated names
  image_base,         \* image_annotated as it was before the last blend
  bboxes,             \* the bounding boxes of the list iterated so far
  i,                  \* the index of the next bounding box
  label_str,          \* the label of the last bounding box rendered
  lookup,             \* the last get_class_color call of the current call
  drawn,              \* <<class, part, colour, call>> of the drawing calls
                      \* of the "current" annotate_image call, and those of
                      \* the "previous" call for the class it resolved last
  raised,             \* the exception the last call ended with, or "none"
  ret,                \* what the last call returned: "none" (nothing yet),
                      \* a buffer (annotate_image) or "None" (view_image_cv)
  window_open,        \* the HighGUI window is on screen
  key_pressed         \* a key was pressed during the view_image_cv call

vars == <<pc, class_colors_dict, mem, image_annotated, image_base, bboxes, i,
          label_str, lookup, drawn, raised, ret, window_open,
          key_pressed>>

annotate_vars == <<mem, image_annotated, image_base, bboxes, i, label_str,
                   drawn>>
view_vars == <<window_open, key_pressed>>

Black == Uniform(<<0, 0, 0>>)

NoLookup == [called |-> FALSE, class |-> StrKey(<< >>), raised |-> "none",
             hit |-> FALSE, color |-> <<0, 0, 0>>, diag |-> 0,
             before |-> Unset, after |-> Unset]
Lookup(class, before, r) ==
  [called |-> TRUE, class |-> class, raised |-> r.raised, hit |-> r.hit,
   color |-> r.color, diag |-> r.diag, before |-> before, after |-> r.dict]

\* np.random.random is called on the fallback path only
Samples(dict, class) ==
  IF dict.kind = "dict" /\ ~ HasKey(dict.d, class) THEN RandomColors
  ELSE {<<0, 0, 0>>}

Init ==
  /\ pc = "start"
  /\ class_colors_dict = Unset
  /\ mem = [image |-> InputImage, copy1 |-> Black, copy2 |-> Black]
  /\ image_annotated = "none"
  /\ image_base = Black
  /\ bboxes = << >>
  /\ i = 1
  /\ label_str = << >>
  /\ lookup = NoLookup
  /\ drawn = {}
  /\ raised = "none"
  /\ ret = "none"
  /\ window_open = FALSE
  /\ key_pressed = FALSE

(***************************************************************************)
(* load_class_color_map, and get_class_color called by the caller before   *)
(* it annotates.                                                           *)
(***************************************************************************)
LoadClassColorMap ==
  /\ pc = "start"
  /\ \E file \in ConfigFiles :
       LET r == load_class_color_map(file)
       IN  /\ raised' = r.raised
           /\ class_colors_dict' = r.value
           /\ pc' = IF r.raised = "none" THEN "idle" ELSE "start"
  /\ UNCHANGED <<lookup, ret, annotate_vars, view_vars>>

GetClassColor ==
  /\ pc = "idle"
  /\ image_annotated = "none"
  /\ \E class \in ClassChoices :
       \E sample \in Samples(class_colors_dict, class) :
         LET r == get_class_color(class_colors_dict, class, sample)
         IN  /\ lookup' = Lookup(class, class_colors_dict, r)
             /\ class_colors_dict' = r.dict
             /\ raised' = r.raised
  /\ UNCHANGED <<pc, ret, annotate_vars, view_vars>>

(***************************************************************************)
(* annotate_image.                                                         *)
(***************************************************************************)
\* the body of the loop for one bounding box, on the memory m with the
\* annotated image in buffer a: the memory, the locals and the exception it
\* ends with
annotate_bbox(m, a, dict, bbox, sample) ==
  LET r     == get_class_color(dict, bbox.class, sample)
      color == r.color
      \* Draw bbox rectangle (cv2.rectangle writes into its argument)
      m1    == [m EXCEPT ![a] = cv2_rectangle(m[a], bbox.xmin, bbox.ymin,
                                              bbox.xmax, bbox.ymax, color,
                                              bbox_thickness)]
      text  == IF bbox.confidence.kind = "num"
                 THEN bbox.class.s \o FormatConfidence(bbox.confidence.e)
                 ELSE bbox.class.s
      size  == cv2_getTextSize(text)
      w     == size[1]
      h     == size[2]
      ovl   == np_copy(m1, a, "copy2")
      m2    == [ovl.mem EXCEPT ![ovl.ref] =
                  cv2_rectangle(ovl.mem[ovl.ref], bbox.xmin,
                                bbox.ymin - ((3 * h) \div 2),
                                bbox.xmin + w, bbox.ymin, color, -1)]
      m3    == [m2 EXCEPT ![ovl.ref] =
                  cv2_putText(m2[ovl.ref], text, bbox.xmin,
                              bbox.ymin - text_dy, <<255, 255, 255>>)]
      m4    == [m3 EXCEPT ![a] = cv2_addWeighted(m3[ovl.ref], m3[a])]
      out(exc, memory, base, label, parts) ==
        [raised |-> exc, mem |-> memory, base |-> base, label |-> label,
         lookup |-> r,
         drew |-> {<<bbox.class, part, color, "current">> : part \in parts}]
  IN  IF r.raised # "none"
        THEN out(r.raised, m, m[a], << >>, {})
      ELSE IF bbox.confidence.kind = "absent"
        \* bbox['confidence']
        THEN out("KeyError", m1, m1[a], << >>, {"outline"})
      ELSE IF bbox.class.t # "str" /\ bbox.confidence.kind = "num"
        \* label_str += ': {:.2f}%'.format(...) on a label that is no str
        THEN out("TypeError", m1, m1[a], << >>, {"outline"})
      ELSE IF bbox.class.t # "str"
        \* cv2.getTextSize on a text that is no str
        THEN out("cv2.error", m1, m1[a], << >>, {"outline"})
      ELSE out("none", m4, m3[a], text, {"outline", "chip"})

\* the call and image_annotated = np.copy(image); the locals are fresh
AnnotateBegin ==
  /\ pc = "idle"
  /\ LET c == np_copy([mem EXCEPT !.copy2 = Black], "image", "copy1")
     IN  /\ mem' = c.mem
         /\ image_annotated' = c.ref
  /\ bboxes' = << >>
  /\ i' = 1
  /\ image_base' = Black
  /\ label_str' = << >>
  /\ lookup' = NoLookup
  /\ drawn' = {<<d[1], d[2], d[3], "previous">> :
                  d \in {e \in drawn : e[1] = lookup.class /\ e[4] = "current"}}
  /\ ret' = "none"
  /\ raised' = "none"
  /\ pc' = "loop"
  /\ UNCHANGED <<class_colors_dict, view_vars>>

\* one iteration of "for bbox in bboxes", on the next bounding box of the list
AnnotateBBox ==
  /\ pc = "loop"
  /\ i <= MaxBoxes
  /\ \E bbox \in BBoxChoices :
       \E sample \in Samples(class_colors_dict, bbox.class) :
         LET b == annotate_bbox(mem, image_annotated, class_colors_dict,
                                bbox, sample)
         IN  /\ bboxes' = Append(bboxes, bbox)
             /\ mem' = b.mem
             /\ image_base' = b.base
             /\ label_str' = b.label
             /\ lookup' = Lookup(bbox.class, class_colors_dict, b.lookup)
             /\ class_colors_dict' = b.lookup.dict
             /\ drawn' = drawn \cup b.drew
             /\ raised' = b.raised
             /\ pc' = IF b.raised = "none" THEN "loop" ELSE "idle"
  /\ i' = i + 1
  /\ UNCHANGED <<image_annotated, ret, view_vars>>

\* the list is exhausted: return image_annotated
AnnotateReturn ==
  /\ pc = "loop"
  /\ ret' = image_annotated
  /\ pc' = "idle"
  /\ UNCHANGED <<class_colors_dict, lookup, raised, annotate_vars, view_vars>>

(***************************************************************************)
(* view_image_cv, called on the image annotate_image returned.             *)
(***************************************************************************)
\* cv2.imshow(window_title, image)
ViewImshow ==
  /\ pc = "idle"
  /\ ret \in {"image", "copy1"}
  /\ window_open' = TRUE
  /\ ret' = "none"
  /\ pc' = "waitKey"
  /\ UNCHANGED <<class_colors_dict, lookup, raised, annotate_vars, key_pressed>>

\* the user presses a key in the window
KeyPress ==
  /\ window_open
  /\ ~ key_pressed
  /\ key_pressed' = TRUE
  /\ UNCHANGED <<pc, class_colors_dict, lookup, raised, ret, annotate_vars,
                 window_open>>

\* cv2.waitKey(1): returns after a delay whether or not a key was pressed
ViewWaitKey_poll ==
  /\ pc = "waitKey"
  /\ pc' = "destroy"
  /\ UNCHANGED <<class_colors_dict, lookup, raised, ret, annotate_vars,
                 view_vars>>

\* cv2.waitKey() returns once a key was pressed
ViewWaitKey ==
  /\ pc = "waitKey"
  /\ key_pressed
  /\ pc' = "destroy"
  /\ UNCHANGED <<class_colors_dict, lookup, raised, ret, annotate_vars,
                 view_vars>>

\* cv2.destroyAllWindows()
ViewDestroy ==
  /\ pc = "destroy"
  /\ window_open' = FALSE
  /\ pc' = "view_return"
  /\ UNCHANGED <<class_colors_dict, lookup, raised, ret, annotate_vars,
                 key_pressed>>

\* the function ends without a return statement
ViewReturn ==
  /\ pc = "view_return"
  /\ ret' = "None"
  /\ key_pressed' = FALSE
  /\ pc' = "idle"
  /\ UNCHANGED <<class_colors_dict, lookup, raised, annotate_vars, window_open>>

Next ==
  \/ LoadClassColorMap
  \/ GetClassColor
  \/ AnnotateBegin
  \/ AnnotateBBox
  \/ AnnotateReturn
  \/ ViewImshow
  \/ KeyPress
  \/ ViewWaitKey
  \/ ViewDestroy
  \/ ViewReturn

Spec == Init /\ [][Next]_vars

\* the interpreter runs the statements of view_image_cv one after another
LiveSpec == Spec /\ WF_vars(ViewWaitKey) /\ WF_vars(ViewDestroy)
                 /\ WF_vars(ViewReturn)

(***************************************************************************)
(* Properties of the four functions.                                       *)
(***************************************************************************)
Buffers == {"image", "copy1", "copy2"}
InRange(color) == \A c \in Channels : 0 <= color[c] /\ color[c] <= COLOR_MAX

\* annotate_image has rendered the last bounding box of the list in full and
\* is in its loop, or has returned
Rendered == Len(bboxes) >= 1 /\ raised = "none" /\ pc \in {"loop", "idle"}
LastBox == bboxes[Len(bboxes)]

\* C1: annotate_image never writes to the caller's image; the image it
\* returns is another buffer, and equals the input when the list is empty.
C1_InputNotMutated ==
  /\ mem.image = InputImage
  /\ image_annotated # "image"
  /\ ret \in Buffers =>
       /\ ret # "image"
       /\ (bboxes = << >> => mem[ret] = InputImage)

\* annotate_image returned an image with boxes drawn on it
C1_Witness ==
  /\ pc = "idle"
  /\ ret \in Buffers
  /\ Len(bboxes) >= 1
  /\ mem[ret] # mem.image

\* C2: a lookup of a class that is a key of the mapping returns the colour
\* stored for the key, prints nothing and leaves the mapping as it was; the
\* other boxes of the class were drawn in that same colour.
C2_HitReturnsStored ==
  (/\ lookup.called
   /\ lookup.before.kind = "dict"
   /\ HasKey(lookup.before.d, lookup.class))
  => /\ lookup.raised = "none"
     /\ lookup.color = GetItem(lookup.before.d, lookup.class)
     /\ lookup.diag = 0
     /\ lookup.after = lookup.before
     /\ class_colors_dict = lookup.before
     /\ \A d \in drawn : d[1] = lookup.class => d[3] = lookup.color

\* the caller looked up a class of the mapping
C2_Witness ==
  /\ pc = "idle"
  /\ image_annotated = "none"
  /\ lookup.called
  /\ lookup.hit

\* C3: a lookup of a class that is no key of the mapping does not raise: it
\* prints a diagnostic, returns three values in [0, 255] and leaves the
\* mapping as it was.
C3_MissFallsBack ==
  (/\ lookup.called
   /\ lookup.before.kind = "dict"
   /\ ~ HasKey(lookup.before.d, lookup.class))
  => /\ lookup.raised = "none"
     /\ ~ lookup.hit
     /\ lookup.diag > 0
     /\ Len(lookup.color) = 3
     /\ InRange(lookup.color)
     /\ lookup.after = lookup.before
     /\ class_colors_dict = lookup.before

\* two lookups of the same absent class returned different colours
C3_Witness ==
  /\ lookup.called
  /\ ~ lookup.hit
  /\ lookup.raised = "none"
  /\ \E d \in drawn : d[1] = lookup.class /\ d[3] # lookup.color

\* the pixels of the last box: its outline, its label chip (the filled
\* rectangle from (xmin, ymin - int(1.5 * h)) to (xmin + w, ymin)) and its
\* label text
Outline(b) == RectFootprint(b.xmin, b.ymin, b.xmax, b.ymax, bbox_thickness)
Chip(b, label) ==
  LET size == cv2_getTextSize(label)
  IN  RectFootprint(b.xmin, b.ymin - (3 * size[2]) \div 2,
                    b.xmin + size[1], b.ymin, -1)
Text(b, label) == TextFootprint(label, b.xmin, b.ymin - text_dy)
White == <<255, 255, 255>>

\* C4 as claimed: every pixel of the chip ends with exactly
\* 0.5 * overlay + 0.5 * base, a value in [0, 255].
C4_ExactBlend ==
  Rendered =>
    \A p \in Chip(LastBox, label_str) : \A c \in Channels :
      /\ 2 * mem[image_annotated][p][c] = mem.copy2[p][c] + image_base[p][c]
      /\ 0 <= mem[image_annotated][p][c]
      /\ mem[image_annotated][p][c] <= COLOR_MAX

\* C4, amended: the base is the image with the outline drawn, the overlay is
\* the base with the chip and the text painted on it, and every pixel of the
\* chip ends with 0.5 * overlay + 0.5 * base rounded to a nearest integer,
\* a value in [0, 255].
C4_RoundedBlend ==
  Rendered =>
    LET chip == Chip(LastBox, label_str)
        text == Text(LastBox, label_str)
    IN  /\ \A p \in Outline(LastBox) :
             image_base[p] = ScalarToRaw(lookup.color)
        /\ \A p \in chip :
             /\ mem.copy2[p] = IF p \in text THEN White
                               ELSE ScalarToRaw(lookup.color)
             /\ \A c \in Channels :
                  LET sum == mem.copy2[p][c] + image_base[p][c]
                      out == mem[image_annotated][p][c]
                  IN  /\ 0 <= out /\ out <= COLOR_MAX
                      /\ sum - 1 <= 2 * out /\ 2 * out <= sum + 1
                      /\ (sum % 2 = 0 => 2 * out = sum)

\* a chip was blended over pixels of another colour
C4_Witness ==
  /\ Rendered
  /\ \E p \in Chip(LastBox, label_str) :
       /\ mem.copy2[p] # image_base[p]
       /\ mem[image_annotated][p] # image_base[p]
       /\ mem[image_annotated][p] # mem.copy2[p]

IsDigits(text) ==
  Len(text) > 0 /\ \A k \in 1 .. Len(text) : text[k] \in DigitChars

\* the label of box b as the claim describes it: the class name alone, or
\* the class name, ': ', the confidence with two decimals and '%'
RECURSIVE StrToNat(_)
StrToNat(t) == IF Len(t) = 0 THEN 0
               ELSE 10 * StrToNat(SubSeq(t, 1, Len(t) - 1))
                      + DigitValue(t[Len(t)])
LabelOk(b, label) ==
  IF b.confidence.kind # "num" THEN label = b.class.s
  ELSE LET n == Len(b.class.s)
           t == SubSeq(label, n + 1, Len(label))
           whole == SubSeq(t, 3, Len(t) - 4)
       IN  /\ SubSeq(label, 1, n) = b.class.s
           /\ Len(t) >= 7
           /\ t[1] = ":" /\ t[2] = " "
           /\ IsDigits(whole)
           /\ t[Len(t) - 3] = "."
           /\ t[Len(t) - 2] \in DigitChars
           /\ t[Len(t) - 1] \in DigitChars
           /\ t[Len(t)] = "%"
           /\ LET hundredths == 100 * StrToNat(whole)
                                  + 10 * DigitValue(t[Len(t) - 2])
                                  + DigitValue(t[Len(t) - 1])
              IN  /\ 100 * b.confidence.e - 4 <= 8 * hundredths
                  /\ 8 * hundredths <= 100 * b.confidence.e + 4

\* C5 as claimed: given a mapping, every box with a numeric class name (the
\* digits as text, or the number), corners inside the image and a confidence
\* that is a number or None is processed without an exception, and its label
\* is as described.
C5_AcceptsEveryBox ==
  (/\ class_colors_dict.kind = "dict"
   /\ Len(bboxes) >= 1
   /\ (LastBox.class.t = "int" \/ IsDigits(LastBox.class.s))
   /\ LastBox.confidence.kind # "absent")
  => /\ raised = "none"
     /\ LabelOk(LastBox, label_str)

\* C5, amended: given a mapping, every box whose class name is a text
\* string, with corners inside the image and a confidence that is a number
\* or None, is processed without an exception, and its label is as described.
C5_AcceptsTextClass ==
  (/\ class_colors_dict.kind = "dict"
   /\ Len(bboxes) >= 1
   /\ LastBox.class.t = "str"
   /\ LastBox.confidence.kind # "absent")
  => /\ raised = "none"
     /\ LabelOk(LastBox, label_str)

\* a box with a confidence score was labelled
C5_Witness ==
  /\ Rendered
  /\ LastBox.confidence.kind = "num"
  /\ Len(label_str) > Len(LastBox.class.s)

\* the order of view_image_cv: the window is open while waitKey blocks, it
\* is not closed and the call does not go on while no key was pressed, and
\* the window is closed when the call is over
C6_ViewSafety ==
  /\ pc = "waitKey" => window_open
  /\ pc \in {"destroy", "view_return"} => key_pressed
  /\ pc = "view_return" => ~ window_open
  /\ ret = "None" => ~ window_open
  /\ window_open => pc \in {"waitKey", "destroy"}

\* C6: view_image_cv opens the window before it blocks, never closes it or
\* returns while no key was pressed, and once a key is pressed the window is
\* eventually closed and the call returns None.
C6_OpenBlockClose ==
  /\ [] C6_ViewSafety
  /\ (pc = "waitKey" /\ key_pressed)
       ~> (pc = "idle" /\ ~ window_open /\ ret = "None")

\* view_image_cv has returned
C6_Witness ==
  /\ pc = "idle"
  /\ ret = "None"
  /\ ~ window_open

\* C7 as claimed: what load_class_color_map returns is a mapping from text
\* to triples of numbers in [0, 255], every colour get_class_color returns
\* for it is in that range, and a file that cannot be read or parsed gives
\* an error and no mapping.
C7_ColorsInRange ==
  /\ class_colors_dict # Unset =>
       /\ class_colors_dict.kind = "dict"
       /\ \A k \in DOMAIN class_colors_dict.d :
            /\ k.t = "str"
            /\ Len(class_colors_dict.d[k]) = 3
            /\ InRange(class_colors_dict.d[k])
  /\ (lookup.called /\ lookup.raised = "none") => InRange(lookup.color)
  /\ lookup.called => lookup.raised = "none"
  /\ raised \in {"OSError", "UnicodeDecodeError", "YAMLError", "ValueError"}
       => class_colors_dict = Unset

\* C8 as claimed: the outline of a box of a class mapped to (R, G, B) shows
\* red = R, green = G, blue = B in the BGR image.
C8_OutlineInClassColor ==
  (Rendered /\ lookup.hit /\ InRange(lookup.color))
  => \A p \in Outline(LastBox) \ (Chip(LastBox, label_str)
                                    \cup Text(LastBox, label_str)) :
       /\ mem[image_annotated][p][RED] = lookup.color[1]
       /\ mem[image_annotated][p][GREEN] = lookup.color[2]
       /\ mem[image_annotated][p][BLUE] = lookup.color[3]

\* C9 as claimed: any two boxes of the same class, in one call or in two
\* calls with the same mapping, are drawn in the same colour.
C9_OneColorPerClass ==
  \A d1 \in drawn : \A d2 \in drawn : d1[1] = d2[1] => d1[3] = d2[3]

\* C9, amended: any two boxes of the same class that is a key of the
\* mapping, in one call or in two calls with the same mapping, are drawn
\* (outline and chip) in the same colour, the one stored for the key.
C9_OneColorPerMappedClass ==
  \A d1 \in drawn : \A d2 \in drawn :
    (/\ d1[1] = d2[1]
     /\ class_colors_dict.kind = "dict"
     /\ HasKey(class_colors_dict.d, d1[1]))
    => /\ d1[3] = d2[3]
       /\ d1[3] = GetItem(class_colors_dict.d, d1[1])

\* a mapped class was drawn in this call and in the call before
C9_Witness ==
  \E d1 \in drawn : \E d2 \in drawn :
    /\ d1[1] = d2[1]
    /\ d1[4] = "previous" /\ d2[4] = "current"
    /\ d1[2] = "outline" /\ d2[2] = "chip"
    /\ class_colors_dict.kind = "dict"
    /\ HasKey(class_colors_dict.d, d1[1])

\* C10: the blend leaves every pixel outside the chip and the text as it
\* was (there the overlay equals the base), so the outline keeps the full
\* colour of the box where the chip and the text do not cover it, whatever
\* the boxes before it drew there.
C10_BlendOnlyInChip ==
  Rendered =>
    LET covered == Chip(LastBox, label_str) \cup Text(LastBox, label_str)
    IN  /\ \A p \in Pixels \ covered :
             /\ mem.copy2[p] = image_base[p]
             /\ mem[image_annotated][p] = image_base[p]
        /\ \A p \in Outline(LastBox) \ covered :
             mem[image_annotated][p] = ScalarToRaw(lookup.color)

\* the second box of a list was drawn over the outline of the first
C10_Witness ==
  /\ Rendered
  /\ Len(bboxes) = 2
  /\ LET covered == Chip(LastBox, label_str) \cup Text(LastBox, label_str)
     IN  \E p \in (Outline(LastBox) \cap Outline(bboxes[1])) \ covered :
           /\ mem[image_annotated][p] = ScalarToRaw(lookup.color)
           /\ mem[image_annotated][p] # mem.image[p]
  /\ bboxes[1].class # LastBox.class

============================================================================
